---- MODULE Spec2Model ----
(***************************************************************************)
(* FinanceAI backend (src/backend/app.py, src/backend/model/train_model.py)*)
(* as a state machine: the expenses and budgets tables, the clock, the     *)
(* served classifier artifact, the artifact file, and the request handlers *)
(* of the Flask application.                                               *)
(*                                                                         *)
(* Representation.                                                         *)
(*  - A text is a sequence of tokens; the token " " is whitespace.         *)
(*  - An amount is an integer number of thousandths of the currency unit   *)
(*    (1000 = 1.000), so that round(x, 2) is a real conversion.            *)
(*    Arithmetic on amounts is exact: the rounding error of binary         *)
(*    floating point is not modelled.                                      *)
(*  - An ISO date or datetime string is the sequence of its zero-padded    *)
(*    fields: "2026-12-01" is <<2026, 12, 1>> and "2026-12-01T09:..." is   *)
(*    <<2026, 12, 1, 9>>.  The fields have fixed width, so the character   *)
(*    order of the strings is the lexicographic order of the sequences,    *)
(*    a proper prefix sorting first.                                       *)
(*  - A probability is an integer number of ten-thousandths.               *)
(***************************************************************************)
EXTENDS Integers, Sequences, FiniteSets, TLC

VARIABLES
    now,         \* datetime.now(): [year, month, day, hour]
    expenses,    \* table expenses, in insertion order
    budgets,     \* table budgets: a set of rows [category, budget]
    pipeline,    \* the global served artifact
    modelFile,   \* the content of MODEL_PATH
    classified,  \* the texts the store request served last gave pipeline.predict
    response,    \* the response of the store request served last, at instant now
    ppc,         \* predict requests: position of each in-flight request
    plocal,      \* predict requests: local variables
    presp,       \* predict requests: response
    rpc,         \* retrain requests: position of each in-flight request
    rlocal,      \* retrain requests: local new_pipeline
    rresp,       \* retrain requests: response
    proc         \* the process: position of the module's start-up code, or "up"

vars == <<now, expenses, budgets, pipeline, modelFile, classified, response,
          ppc, plocal, presp, rpc, rlocal, rresp, proc>>

\* no request handler changes proc: it is part of both tuples
storeVars == <<now, expenses, budgets, classified, response, proc>>
serveVars == <<pipeline, modelFile, ppc, plocal, presp, rpc, rlocal, rresp,
               proc>>

----------------------------------------------------------------------------
(* Bounds of the model *)

MaxExpenses == 2
MaxRetrains == 2
MaxPredicts == 1

----------------------------------------------------------------------------
(* Texts *)

SP == " "

RECURSIVE lstrip(_)
lstrip(s) == IF s # <<>> /\ Head(s) = SP THEN lstrip(Tail(s)) ELSE s

RECURSIVE rstrip(_)
rstrip(s) ==
    IF s # <<>> /\ s[Len(s)] = SP THEN rstrip(SubSeq(s, 1, Len(s) - 1)) ELSE s

\* str.strip()
strip(s) == rstrip(lstrip(s))

\* Python truthiness of a str
truthy(s) == s # <<>>

----------------------------------------------------------------------------
(* Numbers *)

\* round(x, n) for x >= 0, q the size of the kept digit in units of x:
\* to the nearest multiple of q, a tie going to the even one
round(x, q) ==
    LET lo == (x \div q) * q
        r  == x - lo
    IN  IF 2 * r < q THEN lo
        ELSE IF 2 * r > q THEN lo + q
        ELSE IF (lo \div q) % 2 = 0 THEN lo ELSE lo + q

CENT == 10       \* two decimals of an amount, in thousandths
PERMILLE == 10   \* three decimals of a probability, in ten-thousandths

RECURSIVE SeqSum(_)
SeqSum(s) == IF s = <<>> THEN 0 ELSE Head(s) + SeqSum(Tail(s))

RECURSIVE SeqMax(_)
SeqMax(s) ==
    IF Len(s) = 1 THEN s[1]
    ELSE LET m == SeqMax(Tail(s)) IN IF s[1] >= m THEN s[1] ELSE m

----------------------------------------------------------------------------
(* ISO strings *)

RECURSIVE StrLess(_, _)
\* a < b for two TEXT values (SQLite BINARY collation)
StrLess(a, b) ==
    IF b = <<>> THEN FALSE
    ELSE IF a = <<>> THEN TRUE
    ELSE IF Head(a) # Head(b) THEN Head(a) < Head(b)
    ELSE StrLess(Tail(a), Tail(b))

StrLeq(a, b) == a = b \/ StrLess(a, b)

\* datetime.isoformat()
isoformat(dt) == <<dt.year, dt.month, dt.day, dt.hour>>

\* datetime.strftime("%Y-%m-%d")
strftime_ymd(dt) == <<dt.year, dt.month, dt.day>>

\* The instants at which requests are served, and the dates callers supply
Instants ==
    { [year |-> 2026, month |-> 11, day |-> 15, hour |-> 9],
      [year |-> 2026, month |-> 12, day |-> 1,  hour |-> 0],
      [year |-> 2026, month |-> 12, day |-> 31, hour |-> 23] }

Dates == { <<2026, 12, 1>> }

Before(a, b) == StrLess(isoformat(a), isoformat(b))

\* get_current_month_range(): <<start, end>>
get_current_month_range ==
    LET start == [now EXCEPT !.day = 1, !.hour = 0]
        end   == IF now.month = 12
                 THEN [now EXCEPT !.year = now.year + 1, !.month = 1, !.day = 1]
                 ELSE [now EXCEPT !.month = now.month + 1, !.day = 1]
    IN  <<isoformat(start), isoformat(end)>>

----------------------------------------------------------------------------
(* The classifier artifact.  An artifact is a Pipeline object: id is the   *)
(* object's identity (0 for the one in service at start, r for the one     *)
(* retrain request r builds) and params names its fitted parameters.       *)
(* "current"                                                               *)
(* is what train_and_save fits on TRAINING_DATA; "legacy" is an artifact   *)
(* pickled by an earlier version of the training script (the one that      *)
(* predicted everything as Food).  The probability rows are representative *)
(* values of the fitted model, one row per input text.                     *)

\* Pipeline.classes_: the labels of TRAINING_DATA, sorted
classes_ ==
    << <<"Bills">>, <<"Entertainment">>, <<"Food">>, <<"Other">>,
       <<"Shopping">>, <<"Transport">> >>

Labels == { classes_[i] : i \in DOMAIN classes_ }

\* Pipeline.predict_proba([text])[0]
predict_proba(artifact, text) ==
    IF artifact.params = "legacy"
    THEN <<200, 200, 9000, 200, 200, 200>>
    ELSE IF text = <<"uber">> THEN <<1236, 1236, 1236, 1236, 1236, 3820>>
    ELSE IF text = <<"zomato">> THEN <<400, 400, 8000, 400, 400, 400>>
    ELSE <<1600, 1600, 1700, 1800, 1600, 1700>>

\* numpy argmax: the first index of the maximum
argmax(v) == CHOOSE i \in DOMAIN v :
    /\ v[i] = SeqMax(v)
    /\ \A j \in DOMAIN v : v[j] = SeqMax(v) => i <= j

\* Pipeline.predict([text])[0]
predict_label(artifact, text) == classes_[argmax(predict_proba(artifact, text))]

LegacyArtifact == [id |-> 0, params |-> "legacy"]
TrainedArtifact(n) == [id |-> n, params |-> "current"]

----------------------------------------------------------------------------
(* Request bodies.  request.get_json() is None or a dict; a dict is a      *)
(* record holding the keys the caller sent.                                *)

None == [none |-> TRUE]
EmptyDict == [k \in {} |-> TRUE]
IsNone(data) == "none" \in DOMAIN data
has(data, key) == ~IsNone(data) /\ key \in DOMAIN data

\* Python: not data
falsy_body(data) == IsNone(data) \/ DOMAIN data = {}

----------------------------------------------------------------------------
(* Tables *)

Row(id, description, amount, category, date) ==
    [id |-> id, description |-> description, amount |-> amount,
     category |-> category, date |-> date]

\* {row["category"]: row["budget"] for row in SELECT * FROM budgets}
budget_map == [c \in {b.category : b \in budgets} |->
                  (CHOOSE b \in budgets : b.category = c).budget]

\* WHERE date >= start AND date < end
in_range(date, start, end) == StrLeq(start, date) /\ StrLess(date, end)

\* the rows of expenses selected by the WHERE clause of the monthly queries
month_rows ==
    LET range == get_current_month_range
    IN  SelectSeq(expenses, LAMBDA e : in_range(e.date, range[1], range[2]))

RECURSIVE sum_amount(_, _)
\* SUM(amount) over the rows of a category
sum_amount(rows, cat) ==
    IF rows = <<>> THEN 0
    ELSE (IF Head(rows).category = cat THEN Head(rows).amount ELSE 0)
         + sum_amount(Tail(rows), cat)

\* SELECT category, SUM(amount) ... GROUP BY category, as a dict
spent_map ==
    LET rows == month_rows
    IN  [c \in {rows[i].category : i \in DOMAIN rows} |-> sum_amount(rows, c)]

\* spent_map.get(cat, 0)
spent_get(cat) == IF cat \in DOMAIN spent_map THEN spent_map[cat] ELSE 0

\* alert_for with the danger test written spent >= budget
alert_for_at_limit(cat, budget, spent) ==
    IF spent >= budget
    THEN << [category |-> cat, budget |-> budget, spent |-> spent,
             exceeded_by |-> round(spent - budget, CENT),
             severity |-> "danger"] >>
    ELSE IF 10 * spent >= 8 * budget
    THEN << [category |-> cat, budget |-> budget, spent |-> spent,
             exceeded_by |-> 0, severity |-> "warning"] >>
    ELSE <<>>

\* the alert compute_alerts appends for one budgeted category, if any
alert_for(cat, budget, spent) ==
    IF spent > budget
    THEN << [category |-> cat, budget |-> budget, spent |-> spent,
             exceeded_by |-> round(spent - budget, CENT),
             severity |-> "danger"] >>
    ELSE IF 10 * spent >= 8 * budget
    THEN << [category |-> cat, budget |-> budget, spent |-> spent,
             exceeded_by |-> 0, severity |-> "warning"] >>
    ELSE <<>>

\* the categories compute_alerts iterates over: budgets.items()
alert_categories == DOMAIN budget_map

RECURSIVE alerts_over(_)
alerts_over(cats) ==
    IF cats = {} THEN <<>>
    ELSE LET cat == CHOOSE c \in cats : TRUE
         IN  alert_for(cat, budget_map[cat], spent_get(cat))
             \o alerts_over(cats \ {cat})

RECURSIVE alerts_over_spent(_)
alerts_over_spent(cats) ==
    IF cats = {} THEN <<>>
    ELSE LET cat == CHOOSE c \in cats : TRUE
             budget == IF cat \in DOMAIN budget_map THEN budget_map[cat] ELSE 0
         IN  alert_for(cat, budget, spent_get(cat))
             \o alerts_over_spent(cats \ {cat})

\* compute_alerts iterating over the categories spent in, budgets.get(cat, 0)
compute_alerts_over_spent == alerts_over_spent(DOMAIN spent_map)

\* compute_alerts(conn)
compute_alerts == IF budgets = {} THEN <<>> ELSE alerts_over(alert_categories)

----------------------------------------------------------------------------
(* Store handlers.  Each runs in one SQLite transaction and is one step.   *)

NoResponse == [op |-> "none", status |-> 0]

\* data.get(key) of a str value; None, like "", is falsy
get(data, key) == IF has(data, key) THEN data[key] ELSE <<>>

\* line 179 predicting from the description as sent, not stripped
expense_category_unstripped(data) ==
    IF truthy(get(data, "category")) THEN get(data, "category")
    ELSE predict_label(pipeline, data.description)

\* line 179: data.get("category") or pipeline.predict([description])[0]
expense_category(data) ==
    IF truthy(get(data, "category")) THEN get(data, "category")
    ELSE predict_label(pipeline, strip(data.description))

\* POST /expense with body data
add_expense(data) ==
    IF IsNone(data)
    THEN \* line 170: "field not in data" raises TypeError on None
         /\ response' = [op |-> "expense", status |-> 500]
         /\ classified' = {}
         /\ UNCHANGED expenses
    ELSE IF ~has(data, "description") \/ ~has(data, "amount")
    THEN /\ response' = [op |-> "expense", status |-> 400]
         /\ classified' = {}
         /\ UNCHANGED expenses
    ELSE IF data.amount <= 0
    THEN /\ response' = [op |-> "expense", status |-> 400]
         /\ classified' = {}
         /\ UNCHANGED expenses
    ELSE LET description == strip(data.description)
             category == expense_category(data)
             date == IF truthy(get(data, "date")) THEN get(data, "date")
                     ELSE strftime_ymd(now)
             expense_id == Len(expenses) + 1
         IN  /\ Len(expenses) < MaxExpenses
             /\ expenses' = Append(expenses,
                    Row(expense_id, description, data.amount, category, date))
             /\ classified' = IF truthy(get(data, "category")) THEN {}
                              ELSE {description}
             /\ response' = [op |-> "expense", status |-> 201,
                             id |-> expense_id, description |-> description,
                             amount |-> data.amount, category |-> category,
                             date |-> date]

AddExpense(data) ==
    /\ add_expense(data)
    /\ UNCHANGED <<now, budgets>>
    /\ UNCHANGED serveVars

\* ORDER BY date DESC, id ASC
expenses_order_id_asc(a, b) ==
    \/ StrLess(b.date, a.date)
    \/ a.date = b.date /\ a.id < b.id

\* ORDER BY date DESC, id DESC: a comes before b
expenses_order(a, b) ==
    \/ StrLess(b.date, a.date)
    \/ a.date = b.date /\ a.id > b.id

RECURSIVE insert_sorted(_, _)
insert_sorted(e, sorted) ==
    IF sorted = <<>> THEN <<e>>
    ELSE IF expenses_order(e, Head(sorted)) THEN <<e>> \o sorted
    ELSE <<Head(sorted)>> \o insert_sorted(e, Tail(sorted))

RECURSIVE order_rows(_)
order_rows(rows) ==
    IF rows = <<>> THEN <<>>
    ELSE insert_sorted(Head(rows), order_rows(Tail(rows)))

\* GET /expenses
get_expenses ==
    LET rows == order_rows(expenses)
    IN  response' = [op |-> "expenses", status |-> 200,
                     expenses |-> rows, count |-> Len(rows)]

GetExpenses ==
    /\ get_expenses
    /\ classified' = {}
    /\ UNCHANGED <<now, expenses, budgets>>
    /\ UNCHANGED serveVars

\* GET /summary
get_summary ==
    LET rows == month_rows
        by_category == [c \in DOMAIN spent_map |-> round(spent_map[c], CENT)]
        total == SeqSum([i \in DOMAIN rows |-> rows[i].amount])
        tops == {c \in DOMAIN spent_map :
                    \A d \in DOMAIN spent_map : spent_map[d] <= spent_map[c]}
    IN  \E top \in (IF tops = {} THEN {<<>>} ELSE tops) :
            response' = [op |-> "summary", status |-> 200,
                         total_spent |-> round(total, CENT),
                         expense_count |-> Len(rows),
                         by_category |-> by_category,
                         top_category |-> top,
                         month |-> <<now.year, now.month>>]

GetSummary ==
    /\ get_summary
    /\ classified' = {}
    /\ UNCHANGED <<now, expenses, budgets>>
    /\ UNCHANGED serveVars

\* a plain INSERT, the row of the category kept
upsert_keeps_old(table, category, budget) ==
    table \cup {[category |-> category, budget |-> budget]}

\* INSERT ... ON CONFLICT(category) DO UPDATE SET budget = excluded.budget
upsert(table, category, budget) ==
    {b \in table : b.category # category}
        \cup {[category |-> category, budget |-> budget]}

\* POST /budget with body data
set_budget(data) ==
    IF falsy_body(data) \/ ~has(data, "category") \/ ~has(data, "budget")
    THEN /\ response' = [op |-> "budget", status |-> 400]
         /\ UNCHANGED budgets
    ELSE IF data.budget <= 0
    THEN /\ response' = [op |-> "budget", status |-> 400]
         /\ UNCHANGED budgets
    ELSE /\ budgets' = upsert(budgets, strip(data.category), data.budget)
         /\ response' = [op |-> "budget", status |-> 200,
                         category |-> strip(data.category),
                         budget |-> data.budget]

SetBudget(data) ==
    /\ set_budget(data)
    /\ classified' = {}
    /\ UNCHANGED <<now, expenses>>
    /\ UNCHANGED serveVars

\* GET /budgets
get_budgets ==
    response' = [op |-> "budgets", status |-> 200, budgets |-> budget_map]

GetBudgets ==
    /\ get_budgets
    /\ classified' = {}
    /\ UNCHANGED <<now, expenses, budgets>>
    /\ UNCHANGED serveVars

\* GET /alerts
get_alerts ==
    LET alerts == compute_alerts
    IN  response' = [op |-> "alerts", status |-> 200,
                     alerts |-> alerts, count |-> Len(alerts),
                     month |-> <<now.year, now.month>>]

GetAlerts ==
    /\ get_alerts
    /\ classified' = {}
    /\ UNCHANGED <<now, expenses, budgets>>
    /\ UNCHANGED serveVars

\* time passes between two requests: the last response has been sent
Tick ==
    /\ \E t \in Instants : Before(now, t) /\ now' = t
    /\ response' = NoResponse
    /\ classified' = {}
    /\ UNCHANGED <<expenses, budgets>>
    /\ UNCHANGED serveVars

----------------------------------------------------------------------------
(* POST /predict.  The handler reads the global pipeline at lines 148, 151 *)
(* and 152; each read is one step, so that a retrain running in another    *)
(* request thread may swap the global between two of them.                 *)

PredictIds == 1..MaxPredicts

NoLocal == [description |-> <<>>, category |-> <<>>, proba |-> <<>>,
            read148 |-> 0, read151 |-> 0, read152 |-> 0]

\* lines 140-146: validation
PredictBegin(t, data) ==
    /\ ppc[t] \in {"idle", "done"}
    /\ IF t = 1 THEN TRUE ELSE ppc[t - 1] # "idle"
    /\ IF falsy_body(data) \/ ~has(data, "description")
       THEN /\ presp' = [presp EXCEPT ![t] = [op |-> "predict", status |-> 400]]
            /\ ppc' = [ppc EXCEPT ![t] = "done"]
            /\ plocal' = [plocal EXCEPT ![t] = NoLocal]
       ELSE IF ~truthy(strip(data.description))
       THEN /\ presp' = [presp EXCEPT ![t] = [op |-> "predict", status |-> 400]]
            /\ ppc' = [ppc EXCEPT ![t] = "done"]
            /\ plocal' = [plocal EXCEPT ![t] = NoLocal]
       ELSE /\ presp' = [presp EXCEPT ![t] = NoResponse]
            /\ ppc' = [ppc EXCEPT ![t] = "l148"]
            /\ plocal' = [plocal EXCEPT ![t] =
                   [NoLocal EXCEPT !.description = strip(data.description)]]
    /\ UNCHANGED <<pipeline, modelFile, rpc, rlocal, rresp>>
    /\ UNCHANGED storeVars

\* line 148: category = pipeline.predict([description])[0]
Predict148(t) ==
    /\ ppc[t] = "l148"
    /\ plocal' = [plocal EXCEPT
           ![t].category = predict_label(pipeline, plocal[t].description),
           ![t].read148 = pipeline.id]
    /\ ppc' = [ppc EXCEPT ![t] = "l151"]
    /\ UNCHANGED <<pipeline, modelFile, presp, rpc, rlocal, rresp>>
    /\ UNCHANGED storeVars

\* line 151: proba = pipeline.predict_proba([description])[0]
Predict151(t) ==
    /\ ppc[t] = "l151"
    /\ plocal' = [plocal EXCEPT
           ![t].proba = predict_proba(pipeline, plocal[t].description),
           ![t].read151 = pipeline.id]
    /\ ppc' = [ppc EXCEPT ![t] = "l152"]
    /\ UNCHANGED <<pipeline, modelFile, presp, rpc, rlocal, rresp>>
    /\ UNCHANGED storeVars

\* the response with the probabilities rounded to two decimals
predict_response_2dp(description, category, proba, classes) ==
    [op |-> "predict", status |-> 200,
     description |-> description,
     category |-> category,
     confidence |-> [cls \in {classes[i] : i \in DOMAIN classes} |->
                        round(proba[CHOOSE i \in DOMAIN classes : classes[i] = cls],
                              10 * PERMILLE)],
     top_confidence |-> round(SeqMax(proba), 10 * PERMILLE)]

\* lines 153-160: the response built from category, proba and classes
predict_response(description, category, proba, classes) ==
    [op |-> "predict", status |-> 200,
     description |-> description,
     category |-> category,
     confidence |-> [cls \in {classes[i] : i \in DOMAIN classes} |->
                        round(proba[CHOOSE i \in DOMAIN classes : classes[i] = cls],
                              PERMILLE)],
     top_confidence |-> round(SeqMax(proba), PERMILLE)]

\* lines 152-160: classes = pipeline.classes_, then the response
Predict152(t) ==
    /\ ppc[t] = "l152"
    /\ plocal' = [plocal EXCEPT ![t].read152 = pipeline.id]
    /\ presp' = [presp EXCEPT ![t] =
           predict_response(plocal[t].description, plocal[t].category,
                            plocal[t].proba, classes_)]
    /\ ppc' = [ppc EXCEPT ![t] = "done"]
    /\ UNCHANGED <<pipeline, modelFile, rpc, rlocal, rresp>>
    /\ UNCHANGED storeVars

----------------------------------------------------------------------------
(* POST /retrain.  train_and_save fits, evaluates, opens MODEL_PATH for    *)
(* writing (which truncates it), dumps the pickle and returns; each of     *)
(* these may raise.  The handler then assigns the global pipeline.         *)

RetrainIds == 1..MaxRetrains

NoArtifact == [id |-> -1, params |-> "none"]

\* the content of MODEL_PATH
FileOf(artifact) == [state |-> "complete", artifact |-> artifact]
FileEmpty == [state |-> "empty", artifact |-> NoArtifact]
FileMissing == [state |-> "missing", artifact |-> NoArtifact]
FilePartial(artifact) == [state |-> "partial", artifact |-> artifact]

\* the except branch putting the half-built new_pipeline in service
retrain_except_swaps(r) ==
    /\ rresp' = [rresp EXCEPT ![r] = [op |-> "retrain", status |-> 500]]
    /\ rpc' = [rpc EXCEPT ![r] = "done"]
    /\ pipeline' = rlocal[r]

\* lines 306-307: except Exception -> 500; the global is not assigned
retrain_except(r) ==
    /\ rresp' = [rresp EXCEPT ![r] = [op |-> "retrain", status |-> 500]]
    /\ rpc' = [rpc EXCEPT ![r] = "done"]
    /\ pipeline' = pipeline

\* the request arrives and train_and_save(MODEL_PATH) is called
RetrainBegin(r) ==
    /\ rpc[r] = "idle"
    /\ IF r = 1 THEN TRUE ELSE rpc[r - 1] # "idle"
    /\ rpc' = [rpc EXCEPT ![r] = "fit"]
    /\ UNCHANGED <<pipeline, modelFile, ppc, plocal, presp, rlocal, rresp>>
    /\ UNCHANGED storeVars

\* train_model.py lines 358-378: build the Pipeline and fit it
RetrainFit(r) ==
    /\ rpc[r] = "fit"
    /\ \/ /\ rlocal' = [rlocal EXCEPT ![r] = TrainedArtifact(r)]
          /\ rpc' = [rpc EXCEPT ![r] = "evaluate"]
          /\ UNCHANGED <<pipeline, rresp>>
       \/ /\ retrain_except(r)
          /\ UNCHANGED rlocal
    /\ UNCHANGED <<modelFile, ppc, plocal, presp>>
    /\ UNCHANGED storeVars

\* train_model.py lines 380-411: accuracy, report and sanity predictions
RetrainEvaluate(r) ==
    /\ rpc[r] = "evaluate"
    /\ \/ /\ rpc' = [rpc EXCEPT ![r] = "open"]
          /\ UNCHANGED <<pipeline, rresp>>
       \/ retrain_except(r)
    /\ UNCHANGED <<modelFile, ppc, plocal, presp, rlocal>>
    /\ UNCHANGED storeVars

\* train_model.py line 414: open(model_path, 'wb')
RetrainOpen(r) ==
    /\ rpc[r] = "open"
    /\ \/ /\ modelFile' = FileEmpty
          /\ rpc' = [rpc EXCEPT ![r] = "dump"]
          /\ UNCHANGED <<pipeline, rresp>>
       \/ /\ retrain_except(r)
          /\ UNCHANGED modelFile
    /\ UNCHANGED <<ppc, plocal, presp, rlocal>>
    /\ UNCHANGED storeVars

\* train_model.py line 415: pickle.dump(pipeline, f)
RetrainDump(r) ==
    /\ rpc[r] = "dump"
    /\ \/ /\ modelFile' = FileOf(rlocal[r])
          /\ rpc' = [rpc EXCEPT ![r] = "swap"]
          /\ UNCHANGED <<pipeline, rresp>>
       \/ /\ modelFile' = FilePartial(rlocal[r])
          /\ retrain_except(r)
    /\ UNCHANGED <<ppc, plocal, presp, rlocal>>
    /\ UNCHANGED storeVars

\* app.py lines 300-305: pipeline = new_pipeline, then the 200 response
RetrainSwap(r) ==
    /\ rpc[r] = "swap"
    /\ pipeline' = rlocal[r]
    /\ rresp' = [rresp EXCEPT ![r] = [op |-> "retrain", status |-> 200]]
    /\ rpc' = [rpc EXCEPT ![r] = "done"]
    /\ UNCHANGED <<modelFile, ppc, plocal, presp, rlocal>>
    /\ UNCHANGED storeVars

----------------------------------------------------------------------------
(* Process start: app.py lines 29-36 run when the module is imported.  An  *)
(* exception there is not caught and ends the process.                     *)

requestVars == <<ppc, plocal, presp, rpc, rlocal, rresp>>

\* lines 30-36: os.path.exists(MODEL_PATH), then train or pickle.load;
\* pickle.load raises on an empty or truncated file
Startup ==
    /\ proc = "start"
    /\ IF modelFile.state = "missing"
       THEN proc' = "fit" /\ UNCHANGED pipeline
       ELSE IF modelFile.state = "complete"
       THEN proc' = "up" /\ pipeline' = modelFile.artifact
       ELSE proc' = "crashed" /\ UNCHANGED pipeline
    /\ UNCHANGED <<modelFile, now, expenses, budgets, classified, response>>
    /\ UNCHANGED requestVars

\* line 32, train_model.py lines 358-411: fit and evaluate
StartupFit ==
    /\ proc = "fit"
    /\ proc' \in {"open", "crashed"}
    /\ UNCHANGED <<pipeline, modelFile, now, expenses, budgets, classified,
                   response>>
    /\ UNCHANGED requestVars

\* line 32, train_model.py line 414: open(model_path, 'wb')
StartupOpen ==
    /\ proc = "open"
    /\ \/ proc' = "dump" /\ modelFile' = FileEmpty
       \/ proc' = "crashed" /\ UNCHANGED modelFile
    /\ UNCHANGED <<pipeline, now, expenses, budgets, classified, response>>
    /\ UNCHANGED requestVars

\* line 32, train_model.py lines 415-419: pickle.dump, then pipeline is bound
StartupDump ==
    /\ proc = "dump"
    /\ \/ /\ proc' = "up"
          /\ modelFile' = FileOf(TrainedArtifact(0))
          /\ pipeline' = TrainedArtifact(0)
       \/ /\ proc' = "crashed"
          /\ modelFile' = FilePartial(TrainedArtifact(0))
          /\ UNCHANGED pipeline
    /\ UNCHANGED <<now, expenses, budgets, classified, response>>
    /\ UNCHANGED requestVars

\* the process ends (killed, or already crashed) and is started again: its
\* memory is lost, MODEL_PATH and the database stay
Restart ==
    /\ proc \in {"up", "crashed"}
    /\ proc' = "start"
    /\ pipeline' = NoArtifact
    /\ ppc' = [t \in PredictIds |-> "idle"]
    /\ plocal' = [t \in PredictIds |-> NoLocal]
    /\ presp' = [t \in PredictIds |-> NoResponse]
    /\ rpc' = [r \in RetrainIds |-> "idle"]
    /\ rlocal' = [r \in RetrainIds |-> NoArtifact]
    /\ rresp' = [r \in RetrainIds |-> NoResponse]
    /\ UNCHANGED <<modelFile, now, expenses, budgets, classified, response>>

----------------------------------------------------------------------------
(* Requests *)

\* the optional keys of a POST /expense body, added to a body
WithCategory(bodies, categories) ==
    bodies \cup
    { [description |-> b.description, amount |-> b.amount, category |-> c] :
        b \in bodies, c \in categories }

WithDate(bodies, dates) ==
    bodies \cup
    { [k \in DOMAIN b \cup {"date"} |-> IF k = "date" THEN d ELSE b[k]] :
        b \in bodies, d \in dates }

\* POST /expense bodies of the alert scenarios: amounts vary
AlertExpenseBodies ==
    WithDate(
        WithCategory(
            { [description |-> <<"uber">>, amount |-> a] : a \in {4, 500, 1000} },
            { <<"Food">> }),
        Dates)

\* POST /budget bodies of the alert scenarios
AlertBudgetBodies ==
    { [category |-> <<"Transport">>, budget |-> b] : b \in {0, 625, 1000} }
    \cup { [category |-> <<SP, "Food">>, budget |-> 1000] }

\* POST /expense bodies of the validation scenarios: keys, texts, signs vary
StoreExpenseBodies ==
    {None, EmptyDict, [description |-> <<"uber">>], [amount |-> 500]}
    \cup { [description |-> <<"uber">>, amount |-> a] : a \in {-500, 0} }
    \cup WithDate(
            WithCategory(
                { [description |-> d, amount |-> 500] :
                    d \in { <<SP>>, <<"uber", SP>> } },
                { <<>>, <<"Pets">> }),
            Dates)

\* POST /budget bodies of the validation scenarios
BudgetBodies ==
    {None, EmptyDict, [category |-> <<"Food">>], [budget |-> 1000]}
    \cup { [category |-> c, budget |-> b] :
             c \in { <<"Food">>, <<SP, "Transport">> },
             b \in {-1000, 0, 1000} }
    \cup { [category |-> <<"Food", SP>>, budget |-> 625] }

\* POST /predict bodies
PredictBodies ==
    {None, EmptyDict, [text |-> <<"uber">>]}
    \cup { [description |-> d] : d \in { <<SP>>, <<"uber", SP>> } }

----------------------------------------------------------------------------
(* Specifications *)

\* the state once app.py is imported: the artifact was loaded from
\* MODEL_PATH, or trained and saved there; the tables are empty
Init ==
    /\ now \in Instants
    /\ expenses = <<>>
    /\ budgets = {}
    /\ pipeline \in {LegacyArtifact, TrainedArtifact(0)}
    /\ modelFile = FileOf(pipeline)
    /\ classified = {}
    /\ response = NoResponse
    /\ ppc = [t \in PredictIds |-> "idle"]
    /\ plocal = [t \in PredictIds |-> NoLocal]
    /\ presp = [t \in PredictIds |-> NoResponse]
    /\ rpc = [r \in RetrainIds |-> "idle"]
    /\ rlocal = [r \in RetrainIds |-> NoArtifact]
    /\ rresp = [r \in RetrainIds |-> NoResponse]
    /\ proc = "up"

\* budgets, spending and alerts
NextAlerts ==
    \/ \E data \in AlertExpenseBodies : AddExpense(data)
    \/ \E data \in AlertBudgetBodies : SetBudget(data)
    \/ GetAlerts
    \/ GetSummary
    \/ Tick

SpecAlerts == Init /\ [][NextAlerts]_vars

\* creating and listing records
NextStore ==
    \/ \E data \in StoreExpenseBodies : AddExpense(data)
    \/ \E data \in BudgetBodies : SetBudget(data)
    \/ GetExpenses
    \/ GetBudgets
    \/ Tick

SpecStore == Init /\ [][NextStore]_vars

\* inference requests concurrent with retrains
NextServe ==
    \/ \E t \in PredictIds, data \in PredictBodies : PredictBegin(t, data)
    \/ \E t \in PredictIds : Predict148(t) \/ Predict151(t) \/ Predict152(t)
    \/ \E r \in RetrainIds :
          \/ RetrainBegin(r)
          \/ RetrainFit(r)
          \/ RetrainEvaluate(r)
          \/ RetrainOpen(r)
          \/ RetrainDump(r)
          \/ RetrainSwap(r)

SpecServe == Init /\ [][NextServe]_vars

\* the state when the process is first started: MODEL_PATH is absent, or
\* holds an artifact pickled earlier
InitStartup ==
    /\ now \in Instants
    /\ expenses = <<>>
    /\ budgets = {}
    /\ pipeline = NoArtifact
    /\ modelFile \in {FileMissing, FileOf(LegacyArtifact)}
    /\ classified = {}
    /\ response = NoResponse
    /\ ppc = [t \in PredictIds |-> "idle"]
    /\ plocal = [t \in PredictIds |-> NoLocal]
    /\ presp = [t \in PredictIds |-> NoResponse]
    /\ rpc = [r \in RetrainIds |-> "idle"]
    /\ rlocal = [r \in RetrainIds |-> NoArtifact]
    /\ rresp = [r \in RetrainIds |-> NoResponse]
    /\ proc = "start"

\* start-up, retrains while the process is up, and restarts
NextStartup ==
    \/ Startup
    \/ StartupFit
    \/ StartupOpen
    \/ StartupDump
    \/ Restart
    \/ /\ proc = "up"
       /\ \E r \in RetrainIds :
             \/ RetrainBegin(r)
             \/ RetrainFit(r)
             \/ RetrainEvaluate(r)
             \/ RetrainOpen(r)
             \/ RetrainDump(r)
             \/ RetrainSwap(r)

SpecStartup == InitStartup /\ [][NextStartup]_vars

----------------------------------------------------------------------------
(* Budget alerts *)

\* the alerts of a GET /alerts response for one category
alerts_of(cat) == SelectSeq(response.alerts, LAMBDA a : a.category = cat)

BudgetedCategories == {b.category : b \in budgets}

\* C1, as stated: for every budgeted category, GET /alerts holds exactly one
\* danger alert with exceeded_by = spent - budget when spent > budget,
\* otherwise exactly one warning alert when spent >= 0.8 * budget, otherwise
\* no alert.
C1_ExactOverspend ==
    response.op = "alerts" =>
        \A cat \in BudgetedCategories :
            LET spent  == spent_get(cat)
                budget == budget_map[cat]
                mine   == alerts_of(cat)
            IN  IF spent > budget
                THEN /\ Len(mine) = 1
                     /\ mine[1].severity = "danger"
                     /\ mine[1].exceeded_by = spent - budget
                ELSE IF 10 * spent >= 8 * budget
                THEN Len(mine) = 1 /\ mine[1].severity = "warning"
                ELSE Len(mine) = 0

\* C1, amended: the same three outcomes, the danger alert carrying
\* spent - budget rounded to two decimals.
C1_Classification ==
    response.op = "alerts" =>
        \A cat \in BudgetedCategories :
            LET spent  == spent_get(cat)
                budget == budget_map[cat]
                mine   == alerts_of(cat)
            IN  IF spent > budget
                THEN /\ Len(mine) = 1
                     /\ mine[1].severity = "danger"
                     /\ mine[1].exceeded_by = round(spent - budget, CENT)
                ELSE IF 10 * spent >= 8 * budget
                THEN Len(mine) = 1 /\ mine[1].severity = "warning"
                ELSE Len(mine) = 0

\* a response holding a danger alert whose overspend has a third decimal,
\* a warning alert, and a budgeted category without alert
C1_Witness ==
    /\ response.op = "alerts"
    /\ \E i \in DOMAIN response.alerts :
          /\ response.alerts[i].severity = "danger"
          /\ response.alerts[i].exceeded_by
                # response.alerts[i].spent - response.alerts[i].budget
    /\ \E cat \in BudgetedCategories : alerts_of(cat) = <<>>

\* the calendar month of a stored date
InCurrentMonth(date) == date[1] = now.year /\ date[2] = now.month

\* the amounts of the expenses of a category dated in the current month
calendar_spent(cat) ==
    sum_amount(SelectSeq(expenses, LAMBDA e : InCurrentMonth(e.date)), cat)

\* C2, as stated: the spend attributed to a category is the sum of the
\* amounts of exactly the expenses dated in the current month, the first
\* day included and the first day of the next month excluded; the monthly
\* summary counts the same expenses.
C2_MonthWindow ==
    /\ response.op = "alerts" =>
          \A i \in DOMAIN response.alerts :
              response.alerts[i].spent = calendar_spent(response.alerts[i].category)
    /\ response.op = "summary" =>
          response.expense_count
              = Len(SelectSeq(expenses, LAMBDA e : InCurrentMonth(e.date)))

\* C8: the categories of the alerts are budgeted categories, no category
\* has two alerts, and there is no alert when no budget exists.
C8_OnlyBudgeted ==
    response.op = "alerts" =>
        /\ \A i \in DOMAIN response.alerts :
              response.alerts[i].category \in BudgetedCategories
        /\ \A i, j \in DOMAIN response.alerts :
              response.alerts[i].category = response.alerts[j].category => i = j
        /\ budgets = {} => response.alerts = <<>>

\* alerts are returned while a category without budget was spent in beyond
\* every configured budget
C8_Witness ==
    /\ response.op = "alerts"
    /\ response.alerts # <<>>
    /\ \E cat \in DOMAIN spent_map :
          /\ cat \notin BudgetedCategories
          /\ \A b \in budgets : spent_map[cat] > b.budget

----------------------------------------------------------------------------
(* Creating and listing records *)

LastExpense == expenses[Len(expenses)]

\* a POST /expense body that fails validation
InvalidExpense(data) ==
    \/ ~has(data, "description")
    \/ ~has(data, "amount")
    \/ data.amount <= 0

\* a POST /budget body that fails validation
InvalidBudget(data) ==
    \/ ~has(data, "category")
    \/ ~has(data, "budget")
    \/ data.budget <= 0

\* C5, as stated: a description empty after trimming never reaches the
\* classifier, on the predict path and on the create-expense path, and no
\* expense with an empty description is stored.
C5_NoEmptyDescription ==
    /\ \A i \in DOMAIN expenses : expenses[i].description # <<>>
    /\ <<>> \notin classified
    /\ \A t \in PredictIds :
          ppc[t] \in {"l148", "l151", "l152"} => plocal[t].description # <<>>

\* C6, as stated: a create-expense or set-budget request that fails
\* validation gets a client error and changes neither table, and every
\* stored amount and budget is positive.
C6_ValidationRejects ==
    /\ [](\A i \in DOMAIN expenses : expenses[i].amount > 0)
    /\ [](\A b \in budgets : b.budget > 0)
    /\ [][ /\ \A data \in StoreExpenseBodies :
                AddExpense(data) /\ InvalidExpense(data) =>
                    /\ response'.status = 400
                    /\ UNCHANGED <<expenses, budgets>>
           /\ \A data \in BudgetBodies :
                SetBudget(data) /\ InvalidBudget(data) =>
                    /\ response'.status = 400
                    /\ UNCHANGED <<expenses, budgets>>
         ]_vars

\* a step that creates an expense
Created ==
    /\ response'.op = "expense"
    /\ response'.status = 201
    /\ Len(expenses') = Len(expenses) + 1

\* C7, as stated: a created expense stores and returns the classifier's
\* prediction for the trimmed description, one of the six labels, when the
\* body has no category; it stores the body's category verbatim, without a
\* call of the classifier, when the body has one.
C7_SuppliedVerbatim ==
    [][ Created =>
        \A data \in StoreExpenseBodies :
            AddExpense(data) =>
                IF has(data, "category")
                THEN /\ LastExpense'.category = data.category
                     /\ response'.category = data.category
                     /\ classified' = {}
                ELSE /\ LastExpense'.category
                           = predict_label(pipeline, strip(data.description))
                     /\ response'.category = LastExpense'.category
                     /\ LastExpense'.category \in Labels
                     /\ classified' = {strip(data.description)}
      ]_vars

\* C7, amended: the body's category is stored verbatim, without a call of
\* the classifier, when it is a non-empty string; the prediction is stored
\* when the body has no category or an empty one.
C7_CategoryChoice ==
    [][ Created =>
        \A data \in StoreExpenseBodies :
            AddExpense(data) =>
                IF has(data, "category") /\ data.category # <<>>
                THEN /\ LastExpense'.category = data.category
                     /\ response'.category = data.category
                     /\ classified' = {}
                ELSE /\ LastExpense'.category
                           = predict_label(pipeline, strip(data.description))
                     /\ response'.category = LastExpense'.category
                     /\ LastExpense'.category \in Labels
                     /\ classified' = {strip(data.description)}
      ]_vars

\* the store holds an expense with a predicted category and one with a
\* caller's category outside the six labels
C7_Witness ==
    /\ \E i \in DOMAIN expenses : expenses[i].category = <<"Transport">>
    /\ \E i \in DOMAIN expenses : expenses[i].category \notin Labels

\* the calendar day of a stored date, as a day count
DayNumber(date) == (date[1] * 12 + date[2]) * 31 + date[3]

----------------------------------------------------------------------------
(* Inference and retrain *)

\* C3, as stated: the label, the probabilities and the class list of one
\* /predict response are read from one and the same artifact.
C3_OneArtifact ==
    \A t \in PredictIds :
        ppc[t] = "done" /\ presp[t].status = 200 =>
            /\ plocal[t].read148 = plocal[t].read151
            /\ plocal[t].read151 = plocal[t].read152

\* a retrain request leaving train_and_save by an exception in this step
RetrainFails(r) ==
    rpc[r] \in {"fit", "evaluate", "open", "dump"} /\ rpc'[r] = "done"

\* a retrain request completing in this step
RetrainSucceeds(r) == rpc[r] = "swap" /\ rpc'[r] = "done"

\* C4: a retrain that fails while fitting, evaluating or writing the file
\* answers 500 and leaves the served artifact as it was; a retrain that
\* succeeds answers 200 and puts its newly trained artifact in service; the
\* served artifact changes in no other step, and an inference call reads
\* the artifact in service when it runs.
C4_RetrainOutcome ==
    [][ /\ \A r \in RetrainIds :
            /\ RetrainFails(r) =>
                  rresp'[r].status = 500 /\ pipeline' = pipeline
            /\ RetrainSucceeds(r) =>
                  /\ rresp'[r].status = 200
                  /\ pipeline' = rlocal[r]
                  /\ pipeline'.params = "current"
        /\ pipeline' # pipeline => \E r \in RetrainIds : RetrainSucceeds(r)
        /\ \A t \in PredictIds :
              ppc[t] = "l148" /\ ppc'[t] = "l151" =>
                  /\ plocal'[t].read148 = pipeline.id
                  /\ plocal'[t].category
                        = predict_label(pipeline, plocal[t].description)
      ]_vars

\* a retrain failed while writing the file, another one succeeded, and an
\* inference call has answered from the artifact then in service
C4_Witness ==
    /\ \E r \in RetrainIds : rresp[r].status = 500 /\ modelFile.state = "partial"
    /\ \E r \in RetrainIds : rresp[r].status = 200 /\ pipeline = rlocal[r]
    /\ \E t \in PredictIds :
          /\ presp[t].status = 200
          /\ plocal[t].read148 = pipeline.id

\* the largest value of a confidence mapping
MaxConfidence(confidence) ==
    CHOOSE m \in {confidence[c] : c \in DOMAIN confidence} :
        \A c \in DOMAIN confidence : confidence[c] <= m

\* C10, as stated: in a successful /predict response top_confidence is the
\* maximum of the confidence mapping and the category attains it.
C10_LabelIsArgmax ==
    \A t \in PredictIds :
        presp[t].status = 200 =>
            /\ presp[t].top_confidence = MaxConfidence(presp[t].confidence)
            /\ presp[t].category \in DOMAIN presp[t].confidence
            /\ presp[t].confidence[presp[t].category] = presp[t].top_confidence

\* probability 1, in ten-thousandths
ONE == 10000

\* the sum of the values of a confidence mapping
RECURSIVE ConfidenceSum(_, _)
ConfidenceSum(confidence, keys) ==
    IF keys = {} THEN 0
    ELSE LET k == CHOOSE c \in keys : TRUE
         IN  confidence[k] + ConfidenceSum(confidence, keys \ {k})

\* the label, the keys and the range of the values of a 200 response
WellFormedPrediction(resp) ==
    /\ resp.category \in Labels
    /\ DOMAIN resp.confidence = Labels
    /\ \A c \in Labels : 0 <= resp.confidence[c] /\ resp.confidence[c] <= ONE

\* C11, as stated: a successful /predict response holds a label of the six,
\* a confidence mapping over exactly the six labels with values in [0, 1],
\* and the returned values sum to 1 within 1e-6.
C11_SumsToOne ==
    \A t \in PredictIds :
        presp[t].status = 200 =>
            /\ plocal[t].description # <<>>
            /\ WellFormedPrediction(presp[t])
            /\ ConfidenceSum(presp[t].confidence, Labels) = ONE

\* C11, amended: the same, the returned values being rounded to three
\* decimals and summing to 1 within 0.003 (half a thousandth per label).
C11_SumsToOneRounded ==
    \A t \in PredictIds :
        presp[t].status = 200 =>
            /\ plocal[t].description # <<>>
            /\ WellFormedPrediction(presp[t])
            /\ \A c \in Labels : presp[t].confidence[c] % PERMILLE = 0
            /\ LET sum == ConfidenceSum(presp[t].confidence, Labels)
                   tol == Len(classes_) * (PERMILLE \div 2)
               IN  ONE - tol <= sum /\ sum <= ONE + tol

\* a 200 response whose returned values do not sum to 1
C11_Witness ==
    \E t \in PredictIds :
        /\ presp[t].status = 200
        /\ ConfidenceSum(presp[t].confidence, Labels) # ONE

----------------------------------------------------------------------------
(* Budgets *)

\* a step that sets a budget
BudgetSet == response'.op = "budget" /\ response'.status = 200

\* C12: the budgets table holds at most one row per category and
\* GET /budgets lists exactly these rows; a successful set-budget leaves the
\* trimmed category with the value sent, and every other budget and every
\* expense as they were; no other request changes a budget.
C12_BudgetUpsert ==
    /\ [](\A a, b \in budgets : a.category = b.category => a = b)
    /\ [](response.op = "budgets" =>
            /\ DOMAIN response.budgets = {b.category : b \in budgets}
            /\ \A b \in budgets : response.budgets[b.category] = b.budget)
    /\ [][ /\ BudgetSet =>
                \A data \in BudgetBodies :
                    SetBudget(data) =>
                        LET cat == strip(data.category)
                        IN  /\ [category |-> cat, budget |-> data.budget]
                                  \in budgets'
                            /\ \A b \in budgets' :
                                  b.category = cat => b.budget = data.budget
                            /\ {b \in budgets' : b.category # cat}
                                  = {b \in budgets : b.category # cat}
                            /\ expenses' = expenses
           /\ budgets' # budgets => BudgetSet
         ]_vars

\* two categories are budgeted, one under a key sent with whitespace, the
\* last request set the budget of Food, and an expense is stored
C12_Witness ==
    /\ response.op = "budget"
    /\ response.status = 200
    /\ response.category = <<"Food">>
    /\ [category |-> <<"Transport">>, budget |-> 1000] \in budgets
    /\ Cardinality(budgets) = 2
    /\ expenses # <<>>

----------------------------------------------------------------------------
(* The artifact file *)

\* C13, as stated: a process start that finds MODEL_PATH missing or corrupt
\* goes on to train, and a start-up that ends leaves a valid artifact in
\* service and in the file.
C13_StartupRetrains ==
    /\ [](proc = "up" =>
            pipeline.params \in {"legacy", "current"} /\ pipeline.id >= 0)
    /\ [][ proc = "start" /\ modelFile.state # "complete" => proc' = "fit" ]_vars

\* C14, as stated: in every state the file at MODEL_PATH is a complete
\* artifact, the previous one or the new one of a retrain.
C14_FileAlwaysComplete ==
    /\ modelFile.state = "complete"
    /\ \/ modelFile.artifact \in {LegacyArtifact, TrainedArtifact(0)}
       \/ \E r \in RetrainIds : modelFile.artifact = rlocal[r]

====
